---- MODULE Spec2Model ----
(***************************************************************************)
(* SCMXpert: the authentication / authorization layer (app/auth.py), the   *)
(* user-management and shipment routes that sit behind its gates, and the  *)
(* password-reset flow (app/routes/auth_routes.py), over a document store  *)
(* whose find_one / update_one / delete_one act on the first matching      *)
(* document in insertion order.                                            *)
(*                                                                         *)
(* Time is counted in minutes.  Fields of the user document that no        *)
(* handler ever reads back (name, created_at, updated_at) are left out.    *)
(***************************************************************************)
EXTENDS Integers, Sequences, FiniteSets, TLC

VARIABLES
    users,          \* db["user"]: the documents, in insertion order
    shipments,      \* db["shipments"]: the documents, in insertion order
    logins,         \* db["logins"]: number of login documents inserted
    now,            \* datetime.now(timezone.utc), in minutes
    issued,         \* bearer tokens create_access_token has returned so far
    nextId,         \* next ObjectId the store hands out for a user document
    nextReset,      \* next value secrets.token_urlsafe(32) returns
    procs,          \* in-flight requests whose store calls interleave
    last            \* the last request served and the response it got

vars == <<users, shipments, logins, now, issued, nextId, nextReset, procs, last>>

----------------------------------------------------------------------------
(* Bounds of the model *)

MaxTime == 60
MaxIssued == 2
MaxIds == 3
MaxResetTokens == 2
MaxLogins == 1

TickSteps == {60}
Emails == {"a@x.com", "b@x.com"}
Passwords == {"Secret123", "Other456"}
SubmittedRoles == {"user", "admin", "root"}
ShipmentIds == {"S1"}
StatusValues == {"In Transit"}
Procs == {"r1", "r2"}

----------------------------------------------------------------------------
(* Configuration and route constants *)

ACCESS_TOKEN_EXPIRE_MINUTES == 10
RESET_TOKEN_EXPIRE_MINUTES == 60
SECRET_KEY == "JWT_SECRET_KEY"

LOGIN_ROUTE == "/login"
SIGNUP_ROUTE == "/signup"
DASHBOARD_ROUTE == "/dashboard"
ADMIN_DASHBOARD_ROUTE == "/admin-dashboard"
USER_MANAGEMENT_ROUTE == "/user_management"
CREATE_SHIPMENT_ROUTE == "/create-shipment"
EDIT_SHIPMENT_ROUTE == "/edit-shipment"
FORGOT_PASSWORD_ROUTE == "/forgot-password"
RESET_PASSWORD_ROUTE == "/reset-password"

\* Python's None, for the integer-valued fields reset_token and
\* reset_token_expires_at (a reset token is a positive integer here).
None == 0

\* No document: what find_one returns when nothing matches.
NoUser == [id |-> None]

----------------------------------------------------------------------------
(* The document store *)

\* A query filter is a record of the field values to match ({"email": email}).
Matches(doc, filter) ==
    \A k \in DOMAIN filter : k \in DOMAIN doc /\ doc[k] = filter[k]

\* Index of the first document of coll that matches filter, 0 when none does.
FindIdx(coll, filter) ==
    IF \E i \in 1..Len(coll) : Matches(coll[i], filter)
    THEN CHOOSE i \in 1..Len(coll) :
            Matches(coll[i], filter) /\ \A j \in 1..(i - 1) : ~Matches(coll[j], filter)
    ELSE 0

FindOne(coll, filter) ==
    LET i == FindIdx(coll, filter) IN IF i = 0 THEN NoUser ELSE coll[i]

\* {"$set": fields} applied to a document.
SetFields(doc, fields) ==
    [k \in DOMAIN doc \cup DOMAIN fields |->
        IF k \in DOMAIN fields THEN fields[k] ELSE doc[k]]

\* update_one: $set on the first matching document; no upsert.
UpdateOne(coll, filter, fields) ==
    LET i == FindIdx(coll, filter)
    IN  IF i = 0 THEN coll ELSE [coll EXCEPT ![i] = SetFields(coll[i], fields)]

\* result.modified_count / result.deleted_count of the call above.
MatchedCount(coll, filter) == IF FindIdx(coll, filter) = 0 THEN 0 ELSE 1

DeleteOne(coll, filter) ==
    LET i == FindIdx(coll, filter)
    IN  IF i = 0 THEN coll
        ELSE [j \in 1..(Len(coll) - 1) |-> IF j < i THEN coll[j] ELSE coll[j + 1]]

InsertOne(coll, doc) == Append(coll, doc)

Docs(coll) == {coll[i] : i \in 1..Len(coll)}

----------------------------------------------------------------------------
(* Password hashing (passlib bcrypt): the digest binds the scheme and the   *)
(* bytes of the plaintext bcrypt reads; verify recomputes it.               *)

\* bcrypt reads the first 72 bytes of the password; passlib's bcrypt handler
\* passes a longer one on without an error (truncate_error is off unless the
\* CryptContext sets it, and this one does not).
BcryptMaxBytes == 72

BcryptInput(password) ==
    IF Len(password) > BcryptMaxBytes THEN SubSeq(password, 1, BcryptMaxBytes)
    ELSE password

get_password_hash(password) == [scheme |-> "bcrypt", of |-> BcryptInput(password)]

verify_password(plain_password, hashed_password) ==
    hashed_password = get_password_hash(plain_password)

----------------------------------------------------------------------------
(* Bearer tokens *)

\* No cookie / no Authorization header (None or the empty string).
Absent == [kind |-> "absent"]
\* A string that is not a JWT.
Malformed == [kind |-> "malformed"]

\* payload.get("sub") of a payload without that claim.
NoClaim == "<no claim>"

Jwt(data, key, exp) ==
    [kind |-> "jwt", key |-> key, sub |-> data.sub, role |-> data.role, exp |-> exp]

create_access_token(data, expires_delta, t) ==
    Jwt(data, SECRET_KEY, t + expires_delta)

\* A token signed with some other key: one a client can make up.
Forged ==
    {Jwt([sub |-> "a@x.com", role |-> "admin"], "other-key",
         MaxTime + ACCESS_TOKEN_EXPIRE_MINUTES)}

\* What a client can put in the cookie or in the Authorization header.
TokenInputs == issued \cup Forged \cup {Absent, Malformed}

\* The <<cookie, header>> pairs requests are made with: either one alone, or
\* a cookie (genuine or garbage) together with a genuine header token.
Credentials ==
    {ch \in TokenInputs \X TokenInputs :
        \/ ch[1] = Absent
        \/ ch[2] = Absent
        \/ ch[1] \in issued \cup {Malformed} /\ ch[2] \in issued}

\* A decoder that would not look at exp.
JWTErrorIgnoringExp(jwt_token, t) ==
    \/ jwt_token.kind # "jwt"
    \/ jwt_token.key # SECRET_KEY

\* jwt.decode(jwt_token, SECRET_KEY, algorithms=[ALGORITHM]) raising JWTError:
\* not a JWT, a signature made with another key, or exp in the past.
JWTError(jwt_token, t) ==
    \/ jwt_token.kind # "jwt"
    \/ jwt_token.key # SECRET_KEY
    \/ jwt_token.exp < t

----------------------------------------------------------------------------
(* The dependency chain of app/auth.py.  A dependency's result is either    *)
(* the user document it returns or the HTTPException it raises.             *)

Returned(user) == [ok |-> TRUE, user |-> user, status |-> 200, detail |-> ""]
Raised(status, detail) ==
    [ok |-> FALSE, user |-> NoUser, status |-> status, detail |-> detail]

credentials_exception == Raised(401, "Not authenticated")

\* The opposite precedence (header first), which the code does not implement:
\* the cookie-precedence property tells the two apart.
HeaderFirst(cookie, token) == IF token # Absent THEN token ELSE cookie

\* A resolver that would trust the role claim of the token instead of the
\* stored role: what the code would have to do for an old token to keep its
\* old role.
ClaimedRolePrincipal(cookie, token, us, t) ==
    LET jwt_token == IF cookie # Absent THEN cookie ELSE token
    IN  IF jwt_token = Absent THEN credentials_exception
        ELSE IF JWTError(jwt_token, t) THEN credentials_exception
        ELSE IF jwt_token.sub = NoClaim THEN credentials_exception
        ELSE LET user == FindOne(us, [email |-> jwt_token.sub])
             IN  IF user = NoUser THEN credentials_exception
                 ELSE Returned([user EXCEPT !.role = jwt_token.role])

\* A resolver that would serve a request without credentials as the first
\* ordinary user of the store.
ResolverGuestFallback(cookie, token, us, t) ==
    LET jwt_token == IF cookie # Absent THEN cookie ELSE token
    IN  IF jwt_token = Absent
        THEN LET guest == FindOne(us, [role |-> "user"])
             IN  IF guest = NoUser THEN credentials_exception ELSE Returned(guest)
        ELSE IF JWTError(jwt_token, t) THEN credentials_exception
        ELSE IF jwt_token.sub = NoClaim THEN credentials_exception
        ELSE LET user == FindOne(us, [email |-> jwt_token.sub])
             IN  IF user = NoUser THEN credentials_exception ELSE Returned(user)

\* A resolver that would believe a correctly signed token whose subject has
\* no user document.
ResolverWithoutLookup(cookie, token, us, t) ==
    LET jwt_token == IF cookie # Absent THEN cookie ELSE token
    IN  IF jwt_token = Absent THEN credentials_exception
        ELSE IF JWTError(jwt_token, t) THEN credentials_exception
        ELSE IF jwt_token.sub = NoClaim THEN credentials_exception
        ELSE LET user == FindOne(us, [email |-> jwt_token.sub])
             IN  IF user = NoUser
                 THEN Returned([id |-> None + 1, email |-> jwt_token.sub,
                                role |-> jwt_token.role])
                 ELSE Returned(user)

\* A resolver that would tell an expired token from the other failures.
ResolverTellsExpiry(cookie, token, us, t) ==
    LET jwt_token == IF cookie # Absent THEN cookie ELSE token
    IN  IF jwt_token = Absent THEN credentials_exception
        ELSE IF jwt_token.kind = "jwt" /\ jwt_token.key = SECRET_KEY /\ jwt_token.exp < t
        THEN Raised(401, "Token has expired")
        ELSE IF JWTError(jwt_token, t) THEN credentials_exception
        ELSE IF jwt_token.sub = NoClaim THEN credentials_exception
        ELSE LET user == FindOne(us, [email |-> jwt_token.sub])
             IN  IF user = NoUser THEN credentials_exception ELSE Returned(user)

\* Role gates the code does not implement: one that answers 403 before the
\* credentials are resolved, and one that lets every resolved principal in.
ForbidUnresolved(current_user) ==
    IF ~current_user.ok THEN Raised(403, "Not enough permissions")
    ELSE IF current_user.user.role # "admin"
         THEN Raised(403, "Not enough permissions")
         ELSE current_user

AdmitEveryRole(current_user) == current_user

\* A resolver that would accept a token only for a user document that still
\* carries the role the token was issued with.
ResolverMatchesClaim(cookie, token, us, t) ==
    LET jwt_token == IF cookie # Absent THEN cookie ELSE token
    IN  IF jwt_token = Absent THEN credentials_exception
        ELSE IF JWTError(jwt_token, t) THEN credentials_exception
        ELSE IF jwt_token.sub = NoClaim THEN credentials_exception
        ELSE LET user == FindOne(us, [email |-> jwt_token.sub])
             IN  IF user = NoUser \/ user.role # jwt_token.role
                 THEN credentials_exception
                 ELSE Returned(user)

\* The token get_current_user goes on to decode: the cookie, and the header
\* token only when there is no cookie.
SelectToken(cookie, token) == IF cookie # Absent THEN cookie ELSE token

get_current_user(cookie, token, us, t) ==
    LET jwt_token == SelectToken(cookie, token)
    IN  IF jwt_token = Absent THEN credentials_exception
        ELSE IF JWTError(jwt_token, t) THEN credentials_exception
        ELSE IF jwt_token.sub = NoClaim THEN credentials_exception
        ELSE LET user == FindOne(us, [email |-> jwt_token.sub])
             IN  IF user = NoUser THEN credentials_exception ELSE Returned(user)

\* What get_current_user does, in order, after it has read the cookie and the
\* header: jwt.decode, the find_one on the store, and how it ends.
ResolveSteps(cookie, token, us, t) ==
    LET jwt_token == SelectToken(cookie, token)
    IN  IF jwt_token = Absent THEN <<"raise">>
        ELSE IF JWTError(jwt_token, t) \/ jwt_token.sub = NoClaim
        THEN <<"decode", "raise">>
        ELSE IF FindOne(us, [email |-> jwt_token.sub]) = NoUser
        THEN <<"decode", "find_one", "raise">>
        ELSE <<"decode", "find_one", "return">>

get_current_active_user(current_user) ==
    IF ~current_user.ok THEN current_user
    ELSE IF current_user.user = NoUser THEN Raised(400, "Inactive user")
    ELSE current_user

verify_admin(current_user) ==
    IF ~current_user.ok THEN current_user
    ELSE IF current_user.user.role # "admin"
         THEN Raised(403, "Not enough permissions")
         ELSE current_user

\* An admin gate that would decide on the role claim of the token.
AdminGateByClaim(cookie, token) ==
    LET current_user == get_current_active_user(get_current_user(cookie, token, users, now))
        jwt_token == SelectToken(cookie, token)
    IN  IF ~current_user.ok THEN current_user
        ELSE IF jwt_token.role # "admin"
             THEN Raised(403, "Not enough permissions")
             ELSE current_user

\* Depends(get_current_active_user) and Depends(verify_admin), as a route
\* declares them.
ActiveGate(cookie, token) ==
    get_current_active_user(get_current_user(cookie, token, users, now))

AdminGate(cookie, token) == verify_admin(ActiveGate(cookie, token))

----------------------------------------------------------------------------
(* Requests and responses.  last is the request just served: the           *)
(* credentials it carried, the principal get_current_user resolved (NoUser *)
(* when it raised), whether the handler body ran, and the response: status *)
(* code, HTTPException detail or flash message, redirect target or         *)
(* template, and the bearer token the response hands out (login only).     *)
(* args are the path and form values the request carried.                  *)

Response(op, args, cookie, token, principal, ran, status, detail, url, tok) ==
    [op |-> op, cookie |-> cookie, header |-> token, principal |-> principal,
     ran |-> ran, status |-> status, detail |-> detail, url |-> url, token |-> tok,
     args |-> args]

\* Nothing served yet, or the clock moved since the last response.
Quiet == Response("", << >>, Absent, Absent, NoUser, FALSE, 0, "", "", Absent)

\* A dependency raised: http_exception_handler answers with its status and
\* detail, and the handler body never runs.
Refused(op, args, cookie, token, dep) ==
    Response(op, args, cookie, token, get_current_user(cookie, token, users, now).user,
             FALSE, dep.status, dep.detail, "", Absent)

\* The handler body ran for a gated request.
Served(op, args, cookie, token, dep, status, detail, url) ==
    Response(op, args, cookie, token, dep.user, TRUE, status, detail, url, Absent)

\* The handler of a route that declares no dependency.
Open(op, args, status, detail, url, tok) ==
    Response(op, args, Absent, Absent, NoUser, TRUE, status, detail, url, tok)

UserDoc(id, email, password_hash, role) ==
    [id |-> id, email |-> email, password_hash |-> password_hash, role |-> role,
     reset_token |-> None, reset_token_expires_at |-> None]

ShipmentDoc(shipment_id) == [shipment_id |-> shipment_id, status |-> ""]

----------------------------------------------------------------------------
(* user_routes.py *)

ActivePages == {"get_dashboard", "get_create_shipment", "get_all_shipments"}
AdminPages == {"get_admin_dashboard", "user_management", "get_edit_shipment"}

\* The pages behind Depends(get_current_active_user) that only render.
ActivePage(page, cookie, token) ==
    LET dep == ActiveGate(cookie, token)
    IN  /\ last' = IF ~dep.ok THEN Refused(page, << >>, cookie, token, dep)
                   ELSE Served(page, << >>, cookie, token, dep, 200, "", page)
        /\ UNCHANGED <<users, shipments, logins, now, issued, nextId, nextReset, procs>>

\* The pages behind Depends(verify_admin) that only render.
AdminPage(page, cookie, token) ==
    LET dep == AdminGate(cookie, token)
    IN  /\ last' = IF ~dep.ok THEN Refused(page, << >>, cookie, token, dep)
                   ELSE Served(page, << >>, cookie, token, dep, 200, "", page)
        /\ UNCHANGED <<users, shipments, logins, now, issued, nextId, nextReset, procs>>

account_page(cookie, token) ==
    LET dep == ActiveGate(cookie, token)
        user_data == IF dep.ok THEN FindOne(users, [email |-> dep.user.email]) ELSE NoUser
    IN  /\ last' = IF ~dep.ok THEN Refused("account_page", << >>, cookie, token, dep)
                   ELSE IF user_data = NoUser
                   THEN Served("account_page", << >>, cookie, token, dep, 302,
                               "User data not found.", DASHBOARD_ROUTE)
                   ELSE Served("account_page", << >>, cookie, token, dep, 200, "", "account.html")
        /\ UNCHANGED <<users, shipments, logins, now, issued, nextId, nextReset, procs>>

edit_user(cookie, token, email) ==
    LET dep == AdminGate(cookie, token)
        user == FindOne(users, [email |-> email])
    IN  /\ last' = IF ~dep.ok THEN Refused("edit_user", <<email>>, cookie, token, dep)
                   ELSE IF user = NoUser
                   THEN Served("edit_user", <<email>>, cookie, token, dep, 303,
                               "User not found.", USER_MANAGEMENT_ROUTE)
                   ELSE Served("edit_user", <<email>>, cookie, token, dep, 200, "", "edit_user.html")
        /\ UNCHANGED <<users, shipments, logins, now, issued, nextId, nextReset, procs>>

\* update_user as it would be without the check of the submitted role.
KeepSubmittedRole(role) == role

\* role = "user" unless the submitted role is one of the two roles.
CoerceRole(role) == IF role \notin {"user", "admin"} THEN "user" ELSE role

update_user(cookie, token, email, new_email, role) ==
    LET dep == AdminGate(cookie, token)
        r == CoerceRole(role)
    IN  /\ IF ~dep.ok
           THEN /\ last' = Refused("update_user", <<email, new_email, role>>, cookie, token, dep)
                /\ users' = users
           ELSE IF email # new_email /\ FindOne(users, [email |-> new_email]) # NoUser
           THEN /\ last' = Served("update_user", <<email, new_email, role>>, cookie, token, dep, 303,
                                  "New email already exists for another user.",
                                  "/edit-user/{email}")
                /\ users' = users
           ELSE /\ users' = UpdateOne(users, [email |-> email],
                                      [email |-> new_email, role |-> r])
                /\ last' = Served("update_user", <<email, new_email, role>>, cookie, token, dep, 303,
                                  IF MatchedCount(users, [email |-> email]) > 0
                                  THEN "User updated successfully."
                                  ELSE "No changes made or user not found.",
                                  USER_MANAGEMENT_ROUTE)
        /\ UNCHANGED <<shipments, logins, now, issued, nextId, nextReset, procs>>

\* assign_admin as it would be if the route depended on
\* get_current_active_user instead of verify_admin.
AssignAdminByAnyUser(cookie, token, email) ==
    LET dep == ActiveGate(cookie, token)
    IN  /\ IF ~dep.ok
           THEN /\ last' = Refused("assign_admin", <<email>>, cookie, token, dep)
                /\ users' = users
           ELSE IF email = dep.user.email
           THEN /\ last' = Served("assign_admin", <<email>>, cookie, token, dep, 303,
                                  "You cannot change your own role.",
                                  USER_MANAGEMENT_ROUTE)
                /\ users' = users
           ELSE /\ users' = UpdateOne(users, [email |-> email],
                                      [role |-> "admin"])
                /\ last' = Served("assign_admin", <<email>>, cookie, token, dep, 303,
                                  IF MatchedCount(users, [email |-> email]) > 0
                                  THEN "User {email} promoted to admin successfully."
                                  ELSE "Failed to update user role or user not found.",
                                  USER_MANAGEMENT_ROUTE)
        /\ UNCHANGED <<shipments, logins, now, issued, nextId, nextReset, procs>>

\* delete_user as it would be without the comparison of the target with the
\* principal's email.
DeleteAnyUser(cookie, token, email) ==
    LET dep == AdminGate(cookie, token)
    IN  /\ IF ~dep.ok
           THEN /\ last' = Refused("delete_user", <<email>>, cookie, token, dep)
                /\ users' = users
           ELSE /\ users' = DeleteOne(users, [email |-> email])
                /\ last' = Served("delete_user", <<email>>, cookie, token, dep, 303,
                                  IF MatchedCount(users, [email |-> email]) > 0
                                  THEN "User {email} deleted successfully."
                                  ELSE "User {email} not found.",
                                  USER_MANAGEMENT_ROUTE)
        /\ UNCHANGED <<shipments, logins, now, issued, nextId, nextReset, procs>>

assign_admin(cookie, token, email) ==
    LET dep == AdminGate(cookie, token)
    IN  /\ IF ~dep.ok
           THEN /\ last' = Refused("assign_admin", <<email>>, cookie, token, dep)
                /\ users' = users
           ELSE IF email = dep.user.email
           THEN /\ last' = Served("assign_admin", <<email>>, cookie, token, dep, 303,
                                  "You cannot change your own role.",
                                  USER_MANAGEMENT_ROUTE)
                /\ users' = users
           ELSE /\ users' = UpdateOne(users, [email |-> email],
                                      [role |-> "admin"])
                /\ last' = Served("assign_admin", <<email>>, cookie, token, dep, 303,
                                  IF MatchedCount(users, [email |-> email]) > 0
                                  THEN "User {email} promoted to admin successfully."
                                  ELSE "Failed to update user role or user not found.",
                                  USER_MANAGEMENT_ROUTE)
        /\ UNCHANGED <<shipments, logins, now, issued, nextId, nextReset, procs>>

delete_user(cookie, token, email) ==
    LET dep == AdminGate(cookie, token)
    IN  /\ IF ~dep.ok
           THEN /\ last' = Refused("delete_user", <<email>>, cookie, token, dep)
                /\ users' = users
           ELSE IF email = dep.user.email
           THEN /\ last' = Served("delete_user", <<email>>, cookie, token, dep, 303,
                                  "You cannot delete your own account.",
                                  USER_MANAGEMENT_ROUTE)
                /\ users' = users
           ELSE /\ users' = DeleteOne(users, [email |-> email])
                /\ last' = Served("delete_user", <<email>>, cookie, token, dep, 303,
                                  IF MatchedCount(users, [email |-> email]) > 0
                                  THEN "User {email} deleted successfully."
                                  ELSE "User {email} not found.",
                                  USER_MANAGEMENT_ROUTE)
        /\ UNCHANGED <<shipments, logins, now, issued, nextId, nextReset, procs>>

\* logout as it would be if the server kept the tokens it signed and
\* withdrew them.
LogoutRevokes ==
    /\ last' = Open("logout", << >>, 302, "", LOGIN_ROUTE, Absent)
    /\ issued' = {}
    /\ UNCHANGED <<users, shipments, logins, now, nextId, nextReset, procs>>

\* Only the client's cookie jar changes: nothing the server keeps.
logout ==
    /\ last' = Open("logout", << >>, 302, "", LOGIN_ROUTE, Absent)
    /\ UNCHANGED <<users, shipments, logins, now, issued, nextId, nextReset, procs>>

----------------------------------------------------------------------------
(* shipment_routes.py *)

\* valid: the form carries every field ShipmentCreateData requires.
create_shipment(cookie, token, shipment_id, valid) ==
    LET dep == ActiveGate(cookie, token)
    IN  /\ IF ~dep.ok
           THEN /\ last' = Refused("create_shipment", <<shipment_id>>, cookie, token, dep)
                /\ shipments' = shipments
           ELSE IF ~valid
           THEN /\ last' = Served("create_shipment", <<shipment_id>>, cookie, token, dep, 302,
                                  "Validation error", CREATE_SHIPMENT_ROUTE)
                /\ shipments' = shipments
           ELSE IF FindOne(shipments, [shipment_id |-> shipment_id]) # NoUser
           THEN /\ last' = Served("create_shipment", <<shipment_id>>, cookie, token, dep, 302,
                                  "Shipment ID already exists.", CREATE_SHIPMENT_ROUTE)
                /\ shipments' = shipments
           ELSE /\ shipments' = InsertOne(shipments, ShipmentDoc(shipment_id))
                /\ last' = Served("create_shipment", <<shipment_id>>, cookie, token, dep, 302,
                                  "Shipment created successfully!", CREATE_SHIPMENT_ROUTE)
        /\ UNCHANGED <<users, logins, now, issued, nextId, nextReset, procs>>

post_edit_shipment(cookie, token, shipment_id, status_value) ==
    LET dep == AdminGate(cookie, token)
    IN  /\ IF ~dep.ok
           THEN /\ last' = Refused("post_edit_shipment", <<shipment_id, status_value>>, cookie, token, dep)
                /\ shipments' = shipments
           ELSE /\ shipments' = UpdateOne(shipments, [shipment_id |-> shipment_id],
                                          [status |-> status_value])
                /\ last' = Served("post_edit_shipment", <<shipment_id, status_value>>, cookie, token, dep, 302,
                                  IF MatchedCount(shipments,
                                                  [shipment_id |-> shipment_id]) > 0
                                  THEN "Shipment updated successfully."
                                  ELSE "No changes made or shipment not found.",
                                  EDIT_SHIPMENT_ROUTE)
        /\ UNCHANGED <<users, logins, now, issued, nextId, nextReset, procs>>

delete_shipment(cookie, token, shipment_id) ==
    LET dep == AdminGate(cookie, token)
    IN  /\ IF ~dep.ok
           THEN /\ last' = Refused("delete_shipment", <<shipment_id>>, cookie, token, dep)
                /\ shipments' = shipments
           ELSE /\ shipments' = DeleteOne(shipments, [shipment_id |-> shipment_id])
                /\ last' = Served("delete_shipment", <<shipment_id>>, cookie, token, dep, 302,
                                  IF MatchedCount(shipments,
                                                  [shipment_id |-> shipment_id]) > 0
                                  THEN "Shipment deleted successfully."
                                  ELSE "Shipment not found or already deleted.",
                                  EDIT_SHIPMENT_ROUTE)
        /\ UNCHANGED <<users, logins, now, issued, nextId, nextReset, procs>>

----------------------------------------------------------------------------
(* auth_routes.py: signup and login *)

post_signup(email, password, confirm_password) ==
    /\ IF password # confirm_password
       THEN /\ last' = Open("post_signup", <<email, password>>, 302, "Passwords do not match.",
                            SIGNUP_ROUTE, Absent)
            /\ UNCHANGED <<users, nextId>>
       ELSE IF FindOne(users, [email |-> email]) # NoUser
       THEN /\ last' = Open("post_signup", <<email, password>>, 302, "Email already registered.",
                            SIGNUP_ROUTE, Absent)
            /\ UNCHANGED <<users, nextId>>
       ELSE /\ nextId <= MaxIds
            /\ users' = InsertOne(users, UserDoc(nextId, email,
                                                 get_password_hash(password), "user"))
            /\ nextId' = nextId + 1
            /\ last' = Open("post_signup", <<email, password>>, 302,
                            "Account created successfully! Please log in.",
                            LOGIN_ROUTE, Absent)
    /\ UNCHANGED <<shipments, logins, now, issued, nextReset, procs>>

\* The credential check as it would be if only the lookup decided.
AnyPassword(user, password) == user # NoUser

\* user is the document find_one returned for the submitted username.
Authenticated(user, password) ==
    user # NoUser /\ verify_password(password, user.password_hash)

LoginToken(username, user) ==
    create_access_token([sub |-> username, role |-> user.role],
                        ACCESS_TOKEN_EXPIRE_MINUTES, now)

\* POST /login
login_for_access_token(username, password) ==
    LET user == FindOne(users, [email |-> username])
    IN  /\ IF ~Authenticated(user, password)
           THEN /\ last' = Open("login_for_access_token", <<username, password>>, 200, "Invalid credentials",
                                "login.html", Absent)
                /\ UNCHANGED <<logins, issued>>
           ELSE /\ logins < MaxLogins
                /\ Cardinality(issued \cup {LoginToken(username, user)}) <= MaxIssued
                /\ issued' = issued \cup {LoginToken(username, user)}
                /\ logins' = logins + 1
                /\ last' = Open("login_for_access_token", <<username, password>>, 302, "",
                                IF user.role = "admin" THEN ADMIN_DASHBOARD_ROUTE
                                                       ELSE DASHBOARD_ROUTE,
                                LoginToken(username, user))
        /\ UNCHANGED <<users, shipments, now, nextId, nextReset, procs>>

\* POST /token as it would be if it told an unknown email from a wrong
\* password.
LoginTellsUnknownEmail(username, password) ==
    LET user == FindOne(users, [email |-> username])
    IN  /\ IF user = NoUser
           THEN /\ last' = Open("login_for_api_token", <<username, password>>, 404,
                                "User not found", "", Absent)
                /\ UNCHANGED issued
           ELSE IF ~Authenticated(user, password)
           THEN /\ last' = Open("login_for_api_token", <<username, password>>, 401,
                                "Incorrect username or password", "", Absent)
                /\ UNCHANGED issued
           ELSE /\ Cardinality(issued \cup {LoginToken(username, user)}) <= MaxIssued
                /\ issued' = issued \cup {LoginToken(username, user)}
                /\ last' = Open("login_for_api_token", <<username, password>>, 200, "", "",
                                LoginToken(username, user))
        /\ UNCHANGED <<users, shipments, logins, now, nextId, nextReset, procs>>

\* POST /token
login_for_api_token(username, password) ==
    LET user == FindOne(users, [email |-> username])
    IN  /\ IF ~Authenticated(user, password)
           THEN /\ last' = Open("login_for_api_token", <<username, password>>, 401,
                                "Incorrect username or password", "", Absent)
                /\ UNCHANGED issued
           ELSE /\ Cardinality(issued \cup {LoginToken(username, user)}) <= MaxIssued
                /\ issued' = issued \cup {LoginToken(username, user)}
                /\ last' = Open("login_for_api_token", <<username, password>>, 200, "", "",
                                LoginToken(username, user))
        /\ UNCHANGED <<users, shipments, logins, now, nextId, nextReset, procs>>

----------------------------------------------------------------------------
(* auth_routes.py: the password-reset flow *)

\* secrets.token_urlsafe(32): a value no earlier call has returned.
token_urlsafe == nextReset

\* A value token_urlsafe never returns: a token a client makes up.
NeverIssued == MaxResetTokens + 1

\* What a client can submit as a reset token: the tokens sent out so far
\* (the reset link is mailed or logged), or one of its own making.
ResetInputs == (1..(nextReset - 1)) \cup {NeverIssued}

\* Store operations and responses the code does not implement; the
\* password-reset properties tell each apart from the one it does.
\* A forgot-password update that keeps a token already stored.
KeepResetToken(us, email, reset_token, expires_at) ==
    LET user == FindOne(us, [email |-> email])
    IN  IF user # NoUser /\ user.reset_token # None THEN us
        ELSE UpdateOne(us, [email |-> email],
                       [reset_token |-> reset_token, reset_token_expires_at |-> expires_at])

\* A lookup that still accepts a token at the instant it expires.
FindByResetTokenAtExpiry(us, token, t) ==
    LET found == {i \in 1..Len(us) :
                    us[i].reset_token = token /\ us[i].reset_token_expires_at >= t}
    IN  IF found = {} THEN NoUser
        ELSE us[CHOOSE i \in found : \A j \in found : i <= j]

\* A password update that leaves the token on the record.
StorePasswordOnly(us, id, new_password_hash) ==
    UpdateOne(us, [id |-> id], [password_hash |-> new_password_hash])

\* A forgot-password response that tells whether the account exists.
ForgotNoAccount(email) ==
    Open("process_forgot_password", <<email>>, 302,
         IF FindOne(users, [email |-> email]) = NoUser
         THEN "No account with that email."
         ELSE "If an account with that email exists, instructions to reset your password have been sent.",
         LOGIN_ROUTE, Absent)

\* A rejection that tells an expired token from an unknown one.
ResetExpiredNotice(token, new_password, confirm_password) ==
    Open("reset_password_post", <<token, new_password, confirm_password>>, 302,
         IF \E i \in 1..Len(users) : users[i].reset_token = token
         THEN "Your password reset token has expired."
         ELSE "Invalid or expired password reset token.",
         FORGOT_PASSWORD_ROUTE, Absent)

\* update_one({"email": email}, {"$set": {"reset_token": ..., "reset_token_expires_at": ...}})
StoreResetToken(us, email, reset_token, expires_at) ==
    UpdateOne(us, [email |-> email],
              [reset_token |-> reset_token, reset_token_expires_at |-> expires_at])

\* find_one({"reset_token": token, "reset_token_expires_at": {"$gt": now}})
FindByResetToken(us, token, t) ==
    LET found == {i \in 1..Len(us) :
                    us[i].reset_token = token /\ us[i].reset_token_expires_at > t}
    IN  IF found = {} THEN NoUser
        ELSE us[CHOOSE i \in found : \A j \in found : i <= j]

\* update_one({"_id": user["_id"]}, {"$set": {"password_hash": ...,
\*            "reset_token": None, "reset_token_expires_at": None}})
StoreNewPassword(us, id, new_password_hash) ==
    UpdateOne(us, [id |-> id],
              [password_hash |-> new_password_hash,
               reset_token |-> None,
               reset_token_expires_at |-> None])

ForgotResponse(email) ==
    Open("process_forgot_password", <<email>>, 302,
         "If an account with that email exists, instructions to reset your password have been sent.",
         LOGIN_ROUTE, Absent)

process_forgot_password(email) ==
    LET user == FindOne(users, [email |-> email])
    IN  /\ IF user # NoUser
           THEN /\ nextReset <= MaxResetTokens
                /\ users' = StoreResetToken(users, email, token_urlsafe,
                                            now + RESET_TOKEN_EXPIRE_MINUTES)
                /\ nextReset' = nextReset + 1
           ELSE UNCHANGED <<users, nextReset>>
        /\ last' = ForgotResponse(email)
        /\ UNCHANGED <<shipments, logins, now, issued, nextId, procs>>

ResetMismatch(token, new_password, confirm_password) ==
    Open("reset_password_post", <<token, new_password, confirm_password>>, 302,
         "Passwords do not match.", "/reset-password?token={token}", Absent)

ResetRejected(token, new_password, confirm_password) ==
    Open("reset_password_post", <<token, new_password, confirm_password>>, 302,
         "Invalid or expired password reset token.", FORGOT_PASSWORD_ROUTE, Absent)

ResetDone(token, new_password, confirm_password) ==
    Open("reset_password_post", <<token, new_password, confirm_password>>, 302,
         "Your password has been reset successfully. Please log in.", LOGIN_ROUTE, Absent)

reset_password_post(token, new_password, confirm_password) ==
    LET user == FindByResetToken(users, token, now)
    IN  /\ IF new_password # confirm_password
           THEN /\ last' = ResetMismatch(token, new_password, confirm_password)
                /\ users' = users
           ELSE IF user = NoUser
           THEN /\ last' = ResetRejected(token, new_password, confirm_password)
                /\ users' = users
           ELSE /\ users' = StoreNewPassword(users, user.id,
                                             get_password_hash(new_password))
                /\ last' = ResetDone(token, new_password, confirm_password)
        /\ UNCHANGED <<shipments, logins, now, issued, nextId, nextReset, procs>>

----------------------------------------------------------------------------
(* The same two handlers when requests overlap, as they do between worker   *)
(* processes that share the store: every store call is one atomic step and  *)
(* the steps of different requests interleave.  A request in flight keeps   *)
(* its form values, the document its find_one returned, and at the end its  *)
(* response.                                                                *)

Idle == [pc |-> "idle", op |-> "", args |-> << >>, user |-> NoUser,
         response |-> Quiet, wrote |-> FALSE]

InFlight(op, args, pc, user) ==
    [pc |-> pc, op |-> op, args |-> args, user |-> user, response |-> Quiet,
     wrote |-> FALSE]

Done(proc, response, wrote) ==
    [proc EXCEPT !.pc = "done", !.response = response, !.wrote = wrote]

\* reset_password_post up to and including its find_one.
reset_find(p, token, new_password, confirm_password) ==
    LET user == FindByResetToken(users, token, now)
        req == InFlight("reset_password_post",
                        <<token, new_password, confirm_password>>, "update", user)
    IN  /\ procs[p] = Idle
        /\ procs' = [procs EXCEPT ![p] =
                IF new_password # confirm_password
                THEN Done(req, ResetMismatch(token, new_password, confirm_password), FALSE)
                ELSE IF user = NoUser
                THEN Done(req, ResetRejected(token, new_password, confirm_password), FALSE)
                ELSE req]
        /\ UNCHANGED <<users, shipments, logins, now, issued, nextId, nextReset, last>>

\* reset_password_post from its update_one to its response.
reset_update(p) ==
    LET req == procs[p]
    IN  /\ req.pc = "update" /\ req.op = "reset_password_post"
        /\ users' = StoreNewPassword(users, req.user.id, get_password_hash(req.args[2]))
        /\ procs' = [procs EXCEPT ![p] =
                Done(req, ResetDone(req.args[1], req.args[2], req.args[3]),
                     MatchedCount(users, [id |-> req.user.id]) > 0)]
        /\ UNCHANGED <<shipments, logins, now, issued, nextId, nextReset, last>>

\* process_forgot_password up to and including its find_one.
forgot_find(p, email) ==
    LET user == FindOne(users, [email |-> email])
        req == InFlight("process_forgot_password", <<email>>, "update", user)
    IN  /\ procs[p] = Idle
        /\ procs' = [procs EXCEPT ![p] =
                IF user = NoUser THEN Done(req, ForgotResponse(email), FALSE) ELSE req]
        /\ UNCHANGED <<users, shipments, logins, now, issued, nextId, nextReset, last>>

\* process_forgot_password from the token's generation to its response.
forgot_update(p) ==
    LET req == procs[p]
    IN  /\ req.pc = "update" /\ req.op = "process_forgot_password"
        /\ nextReset <= MaxResetTokens
        /\ users' = StoreResetToken(users, req.args[1], token_urlsafe,
                                    now + RESET_TOKEN_EXPIRE_MINUTES)
        /\ nextReset' = nextReset + 1
        /\ procs' = [procs EXCEPT ![p] =
                Done(req, ForgotResponse(req.args[1]),
                     MatchedCount(users, [email |-> req.args[1]]) > 0)]
        /\ UNCHANGED <<shipments, logins, now, issued, nextId, last>>

\* The response is sent and the worker takes the next request.
Respond(p) ==
    /\ procs[p].pc = "done"
    /\ procs' = [procs EXCEPT ![p] = Idle]
    /\ UNCHANGED <<users, shipments, logins, now, issued, nextId, nextReset, last>>

----------------------------------------------------------------------------
(* The clock *)

Tick(d) ==
    /\ last = Quiet
    /\ now + d <= MaxTime
    /\ now' = now + d
    /\ last' = last
    /\ UNCHANGED <<users, shipments, logins, issued, nextId, nextReset, procs>>

----------------------------------------------------------------------------
(* The store after startup: one administrator and one ordinary user.        *)

Init ==
    /\ users = << UserDoc(1, "a@x.com", get_password_hash("Secret123"), "admin"),
                  UserDoc(2, "b@x.com", get_password_hash("Secret123"), "user") >>
    /\ shipments = << >>
    /\ logins = 0
    /\ now = 0
    /\ issued = {}
    /\ nextId = 3
    /\ nextReset = 1
    /\ procs = [p \in Procs |-> Idle]
    /\ last = Quiet

\* One request is served at a time: its response is delivered before the
\* next request is taken.
Deliver ==
    /\ last # Quiet
    /\ last' = Quiet
    /\ UNCHANGED <<users, shipments, logins, now, issued, nextId, nextReset, procs>>

Next ==
    \/ last = Quiet /\ \E ch \in Credentials, page \in ActivePages :
          ActivePage(page, ch[1], ch[2])
    \/ last = Quiet /\ \E ch \in Credentials, page \in AdminPages :
          AdminPage(page, ch[1], ch[2])
    \/ last = Quiet /\ \E ch \in Credentials :
          account_page(ch[1], ch[2])
    \/ last = Quiet /\ \E ch \in Credentials, e \in Emails :
          edit_user(ch[1], ch[2], e)
    \/ last = Quiet /\ \E ch \in Credentials, e \in Emails, n \in Emails, r \in SubmittedRoles :
          update_user(ch[1], ch[2], e, n, r)
    \/ last = Quiet /\ \E ch \in Credentials, e \in Emails :
          assign_admin(ch[1], ch[2], e)
    \/ last = Quiet /\ \E ch \in Credentials, e \in Emails :
          delete_user(ch[1], ch[2], e)
    \/ last = Quiet /\ \E ch \in Credentials, sid \in ShipmentIds, valid \in BOOLEAN :
          create_shipment(ch[1], ch[2], sid, valid)
    \/ last = Quiet /\ \E ch \in Credentials, sid \in ShipmentIds, sv \in StatusValues :
          post_edit_shipment(ch[1], ch[2], sid, sv)
    \/ last = Quiet /\ \E ch \in Credentials, sid \in ShipmentIds :
          delete_shipment(ch[1], ch[2], sid)
    \/ last = Quiet /\ logout
    \/ last = Quiet /\ \E e \in Emails, p \in Passwords, q \in Passwords :
          post_signup(e, p, q)
    \/ last = Quiet /\ \E e \in Emails, p \in Passwords :
          login_for_access_token(e, p)
    \/ last = Quiet /\ \E e \in Emails, p \in Passwords :
          login_for_api_token(e, p)
    \/ Deliver
    \/ \E d \in TickSteps : Tick(d)

Spec == Init /\ [][Next]_vars

\* The password-reset flow, with every other request that reads or writes
\* the credentials of a user document; the user-management ones are made
\* from a browser holding a genuine cookie.
NextReset ==
    \/ last = Quiet /\ \E c \in issued, e \in Emails, n \in Emails, r \in SubmittedRoles :
          update_user(c, Absent, e, n, r)
    \/ last = Quiet /\ \E c \in issued, e \in Emails :
          assign_admin(c, Absent, e)
    \/ last = Quiet /\ \E c \in issued, e \in Emails :
          delete_user(c, Absent, e)
    \/ last = Quiet /\ \E e \in Emails, p \in Passwords, q \in Passwords :
          post_signup(e, p, q)
    \/ last = Quiet /\ \E e \in Emails, p \in Passwords :
          login_for_access_token(e, p)
    \/ last = Quiet /\ \E e \in Emails, p \in Passwords :
          login_for_api_token(e, p)
    \/ last = Quiet /\ \E e \in Emails :
          process_forgot_password(e)
    \/ last = Quiet /\ \E t \in ResetInputs, p \in Passwords, q \in Passwords :
          reset_password_post(t, p, q)
    \/ Deliver
    \/ \E d \in TickSteps : Tick(d)

SpecReset == Init /\ [][NextReset]_vars

\* Overlapping password-reset requests.
NextConc ==
    \/ \E p \in Procs, t \in ResetInputs, n \in Passwords, q \in Passwords :
          reset_find(p, t, n, q)
    \/ \E p \in Procs : reset_update(p)
    \/ \E p \in Procs, e \in Emails : forgot_find(p, e)
    \/ \E p \in Procs : forgot_update(p)
    \/ \E p \in Procs : Respond(p)
    \/ \E d \in TickSteps : Tick(d)

SpecConc == Init /\ [][NextConc]_vars

\* Signup and update-user when requests overlap.  The administrator's token
\* comes from an ordinary login; an email nobody has registered yet is there
\* to be claimed.  Signups submit one password, update-user one role.
FreshEmails == {"c@x.com"}

\* post_signup up to and including its find_one.
signup_find(p, email, password, confirm_password) ==
    LET req == InFlight("post_signup", <<email, password>>, "insert", NoUser)
    IN  /\ procs[p] = Idle
        /\ procs' = [procs EXCEPT ![p] =
                IF password # confirm_password
                THEN Done(req, Open("post_signup", <<email, password>>, 302,
                                    "Passwords do not match.", SIGNUP_ROUTE, Absent), FALSE)
                ELSE IF FindOne(users, [email |-> email]) # NoUser
                THEN Done(req, Open("post_signup", <<email, password>>, 302,
                                    "Email already registered.", SIGNUP_ROUTE, Absent), FALSE)
                ELSE req]
        /\ UNCHANGED <<users, shipments, logins, now, issued, nextId, nextReset, last>>

\* post_signup from its insert_one to its response.
signup_insert(p) ==
    LET req == procs[p]
    IN  /\ req.pc = "insert" /\ req.op = "post_signup"
        /\ nextId <= MaxIds
        /\ users' = InsertOne(users, UserDoc(nextId, req.args[1],
                                             get_password_hash(req.args[2]), "user"))
        /\ nextId' = nextId + 1
        /\ procs' = [procs EXCEPT ![p] =
                Done(req, Open("post_signup", req.args, 302,
                               "Account created successfully! Please log in.",
                               LOGIN_ROUTE, Absent), TRUE)]
        /\ UNCHANGED <<shipments, logins, now, issued, nextReset, last>>

\* update_user through its dependencies and its duplicate check.
update_find(p, cookie, email, new_email, role) ==
    LET dep == AdminGate(cookie, Absent)
        req == InFlight("update_user", <<email, new_email, CoerceRole(role)>>, "update",
                        dep.user)
    IN  /\ procs[p] = Idle
        /\ procs' = [procs EXCEPT ![p] =
                IF ~dep.ok
                THEN Done(req, Refused("update_user", <<email, new_email, role>>,
                                       cookie, Absent, dep), FALSE)
                ELSE IF email # new_email /\ FindOne(users, [email |-> new_email]) # NoUser
                THEN Done(req, Served("update_user", <<email, new_email, role>>,
                                      cookie, Absent, dep, 303,
                                      "New email already exists for another user.",
                                      "/edit-user/{email}"), FALSE)
                ELSE req]
        /\ UNCHANGED <<users, shipments, logins, now, issued, nextId, nextReset, last>>

\* update_user from its update_one to its response.
update_write(p) ==
    LET req == procs[p]
        matched == MatchedCount(users, [email |-> req.args[1]]) > 0
    IN  /\ req.pc = "update" /\ req.op = "update_user"
        /\ users' = UpdateOne(users, [email |-> req.args[1]],
                              [email |-> req.args[2], role |-> req.args[3]])
        /\ procs' = [procs EXCEPT ![p] =
                Done(req, Open("update_user", req.args, 303,
                               IF matched THEN "User updated successfully."
                               ELSE "No changes made or user not found.",
                               USER_MANAGEMENT_ROUTE, Absent), matched)]
        /\ UNCHANGED <<shipments, logins, now, issued, nextId, nextReset, last>>

NextConcUsers ==
    \/ last = Quiet /\ login_for_api_token("a@x.com", "Secret123")
    \/ Deliver
    \/ \E p \in Procs, e \in Emails \cup FreshEmails, c \in Passwords :
          signup_find(p, e, "Secret123", c)
    \/ \E p \in Procs : signup_insert(p)
    \/ \E p \in Procs, c \in issued, e \in Emails, n \in Emails \cup FreshEmails :
          update_find(p, c, e, n, "user")
    \/ \E p \in Procs : update_write(p)
    \/ \E p \in Procs : Respond(p)

SpecConcUsers == Init /\ [][NextConcUsers]_vars

\* The life of a bearer token: logins, requests to a protected page with one
\* token (as cookie or as header) that is genuine or of the client's making,
\* logout, the deletion of an account, and a clock that moves in steps finer
\* than the lifetime of a token.
ExpirySteps == {5}

\* A token signed with SECRET_KEY whose payload has no sub claim:
\* create_access_token is never called without one, so only another holder
\* of the key could have signed it.
Unsubjected ==
    {Jwt([sub |-> NoClaim, role |-> "user"], SECRET_KEY,
         MaxTime + ACCESS_TOKEN_EXPIRE_MINUTES)}

CraftedTokens == {Absent, Malformed} \cup Forged \cup Unsubjected

NextTokens ==
    \/ last = Quiet /\ \E e \in Emails, p \in Passwords :
          login_for_access_token(e, p)
    \/ last = Quiet /\ \E e \in Emails, p \in Passwords :
          login_for_api_token(e, p)
    \/ last = Quiet /\ \E c \in issued \cup CraftedTokens :
          ActivePage("get_dashboard", c, Absent)
    \/ last = Quiet /\ \E h \in issued \cup CraftedTokens :
          ActivePage("get_dashboard", Absent, h)
    \/ last = Quiet /\ \E c \in issued, e \in Emails :
          delete_user(c, Absent, e)
    \/ last = Quiet /\ logout
    \/ Deliver
    \/ \E d \in ExpirySteps : Tick(d)

SpecTokens == Init /\ [][NextTokens]_vars

\* Passwords of every length a form can carry: two short ones and two of 73
\* bytes that differ in the last byte only.
Bytes72 == "0123456789abcdef0123456789abcdef0123456789abcdef0123456789abcdef01234567"
LongPasswords == {Bytes72 \o "X", Bytes72 \o "Y"}
FormPasswords == Passwords \cup LongPasswords

\* Signup, login and the password-reset flow with passwords of every length.
NextPasswords ==
    \/ last = Quiet /\ \E e \in Emails \cup FreshEmails, p \in FormPasswords, q \in FormPasswords :
          post_signup(e, p, q)
    \/ last = Quiet /\ \E e \in Emails \cup FreshEmails, p \in FormPasswords :
          login_for_access_token(e, p)
    \/ last = Quiet /\ \E e \in Emails \cup FreshEmails, p \in FormPasswords :
          login_for_api_token(e, p)
    \/ last = Quiet /\ \E e \in Emails :
          process_forgot_password(e)
    \/ last = Quiet /\ \E t \in ResetInputs, p \in FormPasswords, q \in FormPasswords :
          reset_password_post(t, p, q)
    \/ Deliver
    \/ \E d \in TickSteps : Tick(d)

SpecPasswords == Init /\ [][NextPasswords]_vars

----------------------------------------------------------------------------
(* Properties *)

GatedOps ==
    ActivePages \cup AdminPages \cup
    {"account_page", "edit_user", "update_user", "assign_admin", "delete_user",
     "create_shipment", "post_edit_shipment", "delete_shipment"}

AdminOps ==
    AdminPages \cup
    {"edit_user", "update_user", "assign_admin", "delete_user",
     "post_edit_shipment", "delete_shipment"}

\* A token create_access_token signed, not yet expired at time t, whose
\* subject has a user document in us.
ValidFor(tok, us, t) ==
    /\ tok \in issued
    /\ tok.exp >= t
    /\ \E u \in Docs(us) : u.email = tok.sub

\* C1: a request that carries a valid cookie token of user A and a different
\* valid header token of user B is resolved to A's user document, and no
\* request that carries a cookie is ever resolved to the header's subject.
C1_CookieWins ==
    [][(last'.op \in GatedOps /\ last'.cookie # Absent /\ last'.header # Absent)
        => /\ (ValidFor(last'.cookie, users, now) /\ ValidFor(last'.header, users, now)
                /\ last'.cookie.sub # last'.header.sub)
               => /\ last'.principal \in Docs(users)
                  /\ last'.principal.email = last'.cookie.sub
                  /\ last'.status # 401
           /\ last'.principal # NoUser
               => /\ last'.cookie.kind = "jwt"
                  /\ last'.principal.email = last'.cookie.sub]_vars

C1_Witness ==
    /\ last.op = "get_dashboard"
    /\ last.cookie \in issued /\ last.header \in issued
    /\ last.cookie.sub # last.header.sub
    /\ ValidFor(last.cookie, users, now) /\ ValidFor(last.header, users, now)
    /\ last.status = 200
    /\ last.principal.email = last.cookie.sub

\* C2: on every admin-gated route the gates short-circuit in the order
\* resolve, require_active, require_admin: a request whose credentials do not
\* resolve is answered 401 "Not authenticated" (never 403), a resolved
\* principal whose stored role is not admin is answered 403, and in both cases
\* the handler body does not run and users and shipments are left as they were.
C2_GatesShortCircuit ==
    [][last'.op \in AdminOps
        => LET resolved == get_current_user(last'.cookie, last'.header, users, now)
           IN  /\ ~resolved.ok
                   => /\ last'.status = 401 /\ last'.detail = "Not authenticated"
                      /\ ~last'.ran
                      /\ users' = users /\ shipments' = shipments
               /\ (resolved.ok /\ resolved.user.role # "admin")
                   => /\ last'.status = 403
                      /\ ~last'.ran
                      /\ users' = users /\ shipments' = shipments]_vars

C2_Witness ==
    /\ last.op = "delete_shipment"
    /\ last.cookie \in issued /\ last.cookie.exp < now
    /\ last.status = 401
    /\ ~last.ran
    /\ Len(shipments) > 0

\* C3: verify_admin lets a resolved principal through exactly when its role is
\* admin and answers 403 to one whose role is user; the principal it hands on
\* is the stored document, and a refusal (or an admin page) changes no user
\* document.
C3_VerifyAdmin ==
    [][(last'.op \in AdminOps /\ last'.principal # NoUser)
        => /\ last'.principal \in Docs(users)
           /\ last'.ran <=> last'.principal.role = "admin"
           /\ last'.principal.role = "user"
               => last'.status = 403 /\ last'.detail = "Not enough permissions"
           /\ (~last'.ran \/ last'.op \in AdminPages) => users' = users]_vars

C3_Witness ==
    /\ last.op \in AdminOps
    /\ last.principal # NoUser
    /\ last.principal.role = "user"
    /\ last.status = 403

\* The token a request was authenticated with.
UsedToken(response) == SelectToken(response.cookie, response.header)

\* The stored role of the subject of tok, in the store us.
StoredRole(tok, us) == FindOne(us, [email |-> tok.sub]).role

\* A request to an admin route made with a genuine, unexpired token whose
\* role claim is "user" although the stored role of its subject is "admin":
\* the token was issued before the promotion.
StaleRequest(response, us, t) ==
    /\ response.op \in AdminOps
    /\ ValidFor(UsedToken(response), us, t)
    /\ UsedToken(response).role = "user"
    /\ StoredRole(UsedToken(response), us) = "admin"

\* C4 as stated: a request with a token issued before the promotion fails
\* the require_admin check.
C4_StaleTokenFails ==
    [][StaleRequest(last', users, now) => (~last'.ran /\ last'.status = 403)]_vars

\* C4 as amended: a request with a token issued before the promotion passes
\* the require_admin check at once: the gate reads the stored role, and the
\* role claim of the token is never consulted.
C4_StaleTokenPasses ==
    [][StaleRequest(last', users, now) => (last'.ran /\ last'.status # 403)]_vars

C4_Witness ==
    /\ last.op = "get_admin_dashboard"
    /\ UsedToken(last) \in issued
    /\ UsedToken(last).role = "user"
    /\ last.principal # NoUser /\ last.principal.role = "admin"
    /\ last.ran /\ last.status = 200

\* The documents on which token authorizes a password change at time t: it is
\* stored there and its expiry is strictly later than t.
Holders(us, token, t) ==
    {u \in Docs(us) : u.reset_token = token /\ u.reset_token_expires_at > t}

\* token is stored on some document of us, expired or not.
Stored(us, token) == \E u \in Docs(us) : u.reset_token = token

\* A reset form whose two password fields agree.
ResetSubmitted(response) ==
    /\ response.op = "reset_password_post"
    /\ response.args[2] = response.args[3]

\* The response to a rejected reset token, whatever the form values.
RejectedOutcome ==
    [Quiet EXCEPT !.op = "reset_password_post", !.ran = TRUE, !.status = 302,
                  !.detail = "Invalid or expired password reset token.",
                  !.url = FORGOT_PASSWORD_ROUTE]

\* The response to a forgot-password form, whatever the email.
ForgotOutcome ==
    [Quiet EXCEPT !.op = "process_forgot_password", !.ran = TRUE, !.status = 302,
                  !.detail = "If an account with that email exists, instructions to reset your password have been sent.",
                  !.url = LOGIN_ROUTE]

\* C5: a reset_password_post (password fields agreeing) with a stored,
\* unexpired token succeeds and, in one update of the one document that holds
\* it, overwrites the password hash and clears reset_token and
\* reset_token_expires_at; a token that was sent out and is no longer stored
\* is never stored again, and every reset_password_post that presents it is
\* answered "Invalid or expired password reset token." and changes no document.
C5_ConsumedOnce ==
    [][/\ ResetSubmitted(last')
           => LET token == last'.args[1]
                  holders == Holders(users, token, now)
              IN  /\ holders # {}
                      => \E u \in holders :
                           /\ last'.detail = "Your password has been reset successfully. Please log in."
                           /\ last'.url = LOGIN_ROUTE
                           /\ Len(users') = Len(users)
                           /\ Docs(users') = (Docs(users) \ {u}) \cup
                                {[u EXCEPT !.password_hash = get_password_hash(last'.args[2]),
                                           !.reset_token = None,
                                           !.reset_token_expires_at = None]}
                           /\ ~Stored(users', token)
                  /\ (token < nextReset /\ ~Stored(users, token))
                      => /\ [last' EXCEPT !.args = << >>] = RejectedOutcome
                         /\ users' = users
       /\ \A token \in 1..MaxResetTokens :
            (token < nextReset /\ ~Stored(users, token)) => ~Stored(users', token)]_vars

\* The second reset_password_post with token 1, the only one sent out: it was
\* consumed before the clock moved (a document carries the hash a reset
\* wrote), and presenting it again is rejected.
C5_Witness ==
    /\ ResetSubmitted(last)
    /\ last.args[1] = 1 /\ nextReset = 2 /\ now = 0
    /\ ~Stored(users, 1)
    /\ \E u \in Docs(users) :
         /\ u.id \in {1, 2}
         /\ verify_password("Other456", u.password_hash)
         /\ u.reset_token = None /\ u.reset_token_expires_at = None
    /\ [last EXCEPT !.args = << >>] = RejectedOutcome

\* C6: of two reset_password_post requests in flight with the same token (and
\* different new passwords), at most one overwrites a password hash.
C6_AtMostOneConsumes ==
    \A p \in Procs, q \in Procs :
        (/\ p # q
         /\ procs[p].pc = "done" /\ procs[q].pc = "done"
         /\ procs[p].op = "reset_password_post" /\ procs[q].op = "reset_password_post"
         /\ procs[p].args[1] = procs[q].args[1]
         /\ procs[p].args[2] # procs[q].args[2])
        => ~(procs[p].wrote /\ procs[q].wrote)

\* C7: reset_password_post with a token that is stored on a document whose
\* reset_token_expires_at is less than or equal to the current time changes no
\* user document and, when the password fields agree, is answered as a
\* rejected token.
C7_ExpiredNeverAuthorizes ==
    [][(/\ last'.op = "reset_password_post"
        /\ \E u \in Docs(users) :
             u.reset_token = last'.args[1] /\ u.reset_token_expires_at <= now)
        => /\ users' = users
           /\ ResetSubmitted(last') => [last' EXCEPT !.args = << >>] = RejectedOutcome]_vars

\* A rejected reset at the very instant the stored token expires.
C7_Witness ==
    /\ ResetSubmitted(last)
    /\ \E u \in Docs(users) :
         u.reset_token = last.args[1] /\ u.reset_token_expires_at = now
    /\ [last EXCEPT !.args = << >>] = RejectedOutcome

\* C8: process_forgot_password for an email that has a document replaces the
\* reset token and the expiry stored on it by a token never sent out before
\* and the expiry one hour ahead, and changes nothing else; afterwards the new
\* token is the only one that authorizes a password change on that document,
\* and the token it replaced authorizes none.
C8_NewestTokenOnly ==
    [][(/\ last'.op = "process_forgot_password"
        /\ \E u \in Docs(users) : u.email = last'.args[1])
        => \E i \in 1..Len(users) :
             LET old == users[i]
                 new == users'[i]
             IN  /\ old.email = last'.args[1]
                 /\ Len(users') = Len(users)
                 /\ \A j \in 1..Len(users) : j # i => users'[j] = users[j]
                 /\ new = [old EXCEPT !.reset_token = new.reset_token,
                                      !.reset_token_expires_at = now + RESET_TOKEN_EXPIRE_MINUTES]
                 /\ new.reset_token \notin (0..(nextReset - 1)) \cup {NeverIssued}
                 /\ \A token \in 1..NeverIssued :
                      new \in Holders(users', token, now) <=> token = new.reset_token
                 /\ old.reset_token # None => Holders(users', old.reset_token, now) = {}]_vars

\* The second forgot-password request for the same account: token 1 was never
\* consumed (no password changed, no account deleted), and token 2 has
\* replaced it.
C8_Witness ==
    /\ last.op = "process_forgot_password"
    /\ nextReset = 3 /\ now = 0
    /\ {u.id : u \in Docs(users)} = {1, 2}
    /\ \A u \in Docs(users) : verify_password("Secret123", u.password_hash)
    /\ \E u \in Docs(users) : u.email = last.args[1] /\ u.reset_token = 2
    /\ ~Stored(users, 1)
    /\ Holders(users, 2, now) # {}

\* C9: the response of process_forgot_password is the same (status, flash
\* message, redirect to the login page) whether or not the email has a user
\* document; without one no document changes, and with one only the reset
\* token and its expiry on that document change.
C9_ForgotSameResponse ==
    [][last'.op = "process_forgot_password"
        => /\ [last' EXCEPT !.args = << >>] = ForgotOutcome
           /\ Len(users') = Len(users)
           /\ \A i \in 1..Len(users) :
                IF users[i].email = last'.args[1]
                THEN /\ [users'[i] EXCEPT
                           !.reset_token = users[i].reset_token,
                           !.reset_token_expires_at = users[i].reset_token_expires_at]
                        = users[i]
                     /\ users'[i].reset_token # users[i].reset_token
                ELSE users'[i] = users[i]]_vars

\* A forgot-password request for an email that has no document, after another
\* one for an email that has.
C9_Witness ==
    /\ last.op = "process_forgot_password"
    /\ ~\E u \in Docs(users) : u.email = last.args[1]
    /\ nextReset > 1
    /\ \E u \in Docs(users) : u.reset_token # None
    /\ [last EXCEPT !.args = << >>] = ForgotOutcome

\* C10: a reset_password_post (password fields agreeing) whose token was
\* never sent out, or is stored but expired, or was sent out and is no longer
\* stored (consumed), gets one and the same response, the flash message
\* "Invalid or expired password reset token." with a redirect to the
\* forgot-password page, and changes no user document.
C10_RejectedSameOutcome ==
    [][ResetSubmitted(last')
        => LET token == last'.args[1]
               neverIssued == token >= nextReset
               expired == \E u \in Docs(users) :
                            u.reset_token = token /\ u.reset_token_expires_at <= now
               consumed == token < nextReset /\ ~Stored(users, token)
           IN  /\ (neverIssued \/ expired \/ consumed)
                   => /\ [last' EXCEPT !.args = << >>] = RejectedOutcome
                      /\ users' = users
               /\ [last' EXCEPT !.args = << >>] = RejectedOutcome
                   => (neverIssued \/ expired \/ consumed)]_vars

\* A made-up token is rejected while a genuine token is live on a document.
C10_Witness ==
    /\ ResetSubmitted(last)
    /\ last.args[1] = NeverIssued
    /\ \E u \in Docs(users) : u.reset_token # None /\ u.reset_token_expires_at > now
    /\ [last EXCEPT !.args = << >>] = RejectedOutcome

\* The token a request presents: the cookie when it carries one, the header
\* token otherwise.
Presented(response) ==
    IF response.cookie # Absent THEN response.cookie ELSE response.header

\* The response to a request whose credentials did not resolve, whatever the
\* credentials were.
NotAuthenticated(response) ==
    /\ response.status = 401
    /\ response.detail = "Not authenticated"
    /\ ~response.ran
    /\ response.principal = NoUser
    /\ response.url = "" /\ response.token = Absent

\* The six ways get_current_user can fail on the token tok at time t against
\* the store us.
ResolveFailure(tok, us, t) ==
    \/ tok = Absent
    \/ tok = Malformed
    \/ tok.kind = "jwt" /\ tok.key # SECRET_KEY
    \/ tok.kind = "jwt" /\ tok.exp < t
    \/ tok.kind = "jwt" /\ tok.sub = NoClaim
    \/ tok.kind = "jwt" /\ ~\E u \in Docs(us) : u.email = tok.sub

\* C11: whichever sub-check of get_current_user fails (no token, not a JWT,
\* wrong signature, expired, no sub claim, no user document for the sub), the
\* request gets the same response: 401 with detail "Not authenticated"; and
\* a request fails only for one of those reasons.
C11_OneFailureOutcome ==
    [][last'.op = "get_dashboard"
        => /\ ResolveFailure(Presented(last'), users, now) => NotAuthenticated(last')
           /\ ~ResolveFailure(Presented(last'), users, now)
               => last'.ran /\ last'.status = 200]_vars

\* A correctly signed token without a sub claim is refused like the others.
C11_Witness ==
    /\ last.op = "get_dashboard"
    /\ Presented(last) \in Unsubjected
    /\ Presented(last).exp >= now
    /\ NotAuthenticated(last)

\* C12: a token create_access_token signs at time t0 expires at
\* t0 + ACCESS_TOKEN_EXPIRE_MINUTES and is never altered or withdrawn; a
\* request that presents it before that time is accepted as its subject
\* (while the subject has a user document), and one that presents it after
\* that time is refused, whatever happened in between.
C12_TokenLifetime ==
    [][/\ (last'.op = "get_dashboard" /\ Presented(last') \in issued)
           => LET tok == Presented(last')
              IN  /\ (now < tok.exp /\ \E u \in Docs(users) : u.email = tok.sub)
                      => /\ last'.ran /\ last'.status = 200
                         /\ last'.principal.email = tok.sub
                  /\ now > tok.exp => NotAuthenticated(last')
       /\ issued \subseteq issued'
       /\ \A tok \in issued' \ issued :
            /\ tok.exp = now + ACCESS_TOKEN_EXPIRE_MINUTES
            /\ tok.key = SECRET_KEY]_vars

\* An expired token is refused although its subject still has an account and
\* has logged in again since: the later login did not revive it.
C12_Witness ==
    /\ last.op = "get_dashboard"
    /\ Presented(last) \in issued
    /\ Presented(last).exp < now
    /\ \E u \in Docs(users) : u.email = Presented(last).sub
    /\ \E tok \in issued : tok.sub = Presented(last).sub /\ tok.exp >= now
    /\ NotAuthenticated(last)

\* C13: a request to any protected route with neither a cookie nor a header
\* token is answered 401 "Not authenticated"; get_current_user raises before
\* it decodes anything or reads the store, the handler body does not run and
\* nothing is written.  (For every request, get_current_user returns a user
\* exactly when its last step is the return.)
C13_MissingToken ==
    [][last'.op \in GatedOps
        => LET steps == ResolveSteps(last'.cookie, last'.header, users, now)
           IN  /\ (steps[Len(steps)] = "return")
                    <=> get_current_user(last'.cookie, last'.header, users, now).ok
               /\ (last'.cookie = Absent /\ last'.header = Absent)
                    => /\ NotAuthenticated(last')
                       /\ steps = <<"raise">>
                       /\ users' = users /\ shipments' = shipments]_vars

\* A shipment form posted without credentials creates nothing.
C13_Witness ==
    /\ last.op = "create_shipment"
    /\ last.cookie = Absent /\ last.header = Absent
    /\ NotAuthenticated(last)
    /\ shipments = << >>
    /\ issued # {}

\* C14: a request is resolved to a principal only if a user document whose
\* email equals the sub of the presented token is in the store when the
\* request is served, and that document is the principal; a request bearing a
\* genuine token whose sub has no document (the account was deleted, or its
\* email was changed) is answered 401 "Not authenticated".
C14_SubjectMustExist ==
    [][last'.op \in GatedOps
        => LET tok == Presented(last')
           IN  /\ last'.principal # NoUser
                   => /\ tok.kind = "jwt"
                      /\ last'.principal \in Docs(users)
                      /\ last'.principal.email = tok.sub
               /\ (tok \in issued /\ ~\E u \in Docs(users) : u.email = tok.sub)
                   => NotAuthenticated(last')]_vars

\* The administrator's own unexpired token after the account of b was deleted
\* and the administrator's email changed to b's: the document is still there
\* (id 1) under another email, and the token is refused.
C14_Witness ==
    /\ last.op \in GatedOps
    /\ Presented(last) \in issued
    /\ Presented(last).sub = "a@x.com" /\ Presented(last).exp >= now
    /\ ~\E u \in Docs(users) : u.email = "a@x.com"
    /\ \E u \in Docs(users) : u.id = 1 /\ u.email = "b@x.com"
    /\ ~\E u \in Docs(users) : u.id = 2
    /\ NotAuthenticated(last)

\* C15: no two user documents have the same email.
C15_EmailUnique ==
    \A i \in 1..Len(users), j \in 1..Len(users) :
        i # j => users[i].email # users[j].email


NoAdmin(us) == \A u \in Docs(us) : u.role # "admin"

\* C16: a user document that appears in a step has role "user"; a document's
\* role turns into "admin" only in a step of update_user or assign_admin
\* whose handler ran for a principal whose stored role was "admin"; and a
\* step taken from a store without an administrator leaves it without one.
C16_AdminOnlyByAdmin ==
    [][ /\ \A u \in Docs(users') :
              (\A v \in Docs(users) : v.id # u.id) => u.role = "user"
        /\ \A u \in Docs(users'), v \in Docs(users) :
              (u.id = v.id /\ v.role # "admin" /\ u.role = "admin")
              => /\ last'.op \in {"update_user", "assign_admin"}
                 /\ last'.ran
                 /\ last'.principal \in Docs(users)
                 /\ last'.principal.role = "admin"
        /\ NoAdmin(users) => NoAdmin(users')
      ]_vars

\* An administrator has promoted b@x.com while a document created by signup
\* sits in the store with role "user".
C16_Witness ==
    /\ last.op = "assign_admin"
    /\ last.ran
    /\ last.principal.role = "admin"
    /\ last.args = <<"b@x.com">>
    /\ \E u \in Docs(users) : u.email = "b@x.com" /\ u.role = "admin"
    /\ \E u \in Docs(users) : u.id >= 3 /\ u.role = "user"

\* A store that has lost its last administrator refuses a promotion asked
\* with a genuine token.
C16_NoAdminReached ==
    /\ NoAdmin(users)
    /\ last.op \in {"update_user", "assign_admin"}
    /\ last.cookie \in issued
    /\ last.principal # NoUser
    /\ ~last.ran


Roles == {"user", "admin"}

\* C17: in every reachable state the role of every user document is "user"
\* or "admin"; a request to update_user that submits any other role writes
\* "user".
C17_RoleEnumerated ==
    /\ \A u \in Docs(users) : u.role \in Roles
    /\ (last.op = "update_user" /\ last.ran /\ last.detail = "User updated successfully."
        /\ last.args[3] \notin Roles)
       => \A u \in Docs(users) : u.email = last.args[2] => u.role = "user"

\* update_user has written a document for a request that submitted the
\* role "root", on a document that was an administrator's.
C17_Witness ==
    /\ last.op = "update_user"
    /\ last.ran
    /\ last.detail = "User updated successfully."
    /\ last.args[3] = "root"
    /\ \E u \in Docs(users) : u.email = last.args[2] /\ u.id = 1 /\ u.role = "user"


LoginOps == {"login_for_access_token", "login_for_api_token"}

\* C18: a login request is answered with a token only when a user document
\* with the submitted email exists and the submitted password verifies
\* against its stored hash; the token's sub is that email, its role the role
\* the document holds when the request is served, and it is the only token
\* the request adds to the issued ones.
C18_LoginIssuesForVerified ==
    [][ (last = Quiet /\ last'.op \in LoginOps)
        => /\ last'.token # Absent
              => LET user == FindOne(users, [email |-> last'.args[1]])
                 IN  /\ user # NoUser
                     /\ verify_password(last'.args[2], user.password_hash)
                     /\ last'.token.kind = "jwt"
                     /\ last'.token.sub = user.email
                     /\ last'.token.role = user.role
                     /\ last'.token.key = SECRET_KEY
                     /\ issued' = issued \cup {last'.token}
           /\ last'.token = Absent => issued' = issued
      ]_vars

\* POST /token has answered with a token for b@x.com after its password was
\* reset to another one and its role was raised to "admin".
C18_Witness ==
    /\ last.op = "login_for_api_token"
    /\ last.args = <<"b@x.com", "Other456">>
    /\ last.token \in issued
    /\ last.token.sub = "b@x.com"
    /\ last.token.role = "admin"


\* What the client receives: status code, error text, template or redirect,
\* and the token (the cookie of POST /login, the body of POST /token).
Outcome(response) ==
    [status |-> response.status, detail |-> response.detail,
     url |-> response.url, token |-> response.token]

UnknownEmail(response, us) == FindOne(us, [email |-> response.args[1]]) = NoUser

WrongPassword(response, us) ==
    LET user == FindOne(us, [email |-> response.args[1]])
    IN  user # NoUser /\ ~verify_password(response.args[2], user.password_hash)

\* The one answer each login endpoint has for a failed attempt.
FailedLogin ==
    [login_for_access_token |->
        [status |-> 200, detail |-> "Invalid credentials", url |-> "login.html",
         token |-> Absent],
     login_for_api_token |->
        [status |-> 401, detail |-> "Incorrect username or password", url |-> "",
         token |-> Absent]]

\* C19: on each login endpoint an attempt with an email that has no user
\* document and an attempt with a stored email and a wrong password receive
\* the same response, and neither adds a token to the issued ones, hands a
\* token or cookie to the client, nor records a login.
C19_FailedLoginsAlike ==
    [][ (last = Quiet /\ last'.op \in LoginOps
         /\ (UnknownEmail(last', users) \/ WrongPassword(last', users)))
        => /\ Outcome(last') = FailedLogin[last'.op]
           /\ issued' = issued
           /\ logins' = logins
           /\ users' = users
      ]_vars

\* POST /login was attempted with an email whose document has been deleted.
C19_Witness ==
    /\ last.op = "login_for_access_token"
    /\ UnknownEmail(last, users)
    /\ Len(users) < 2
    /\ last.token = Absent

\* POST /login was attempted with a stored email and a wrong password.
C19_WrongPasswordReached ==
    /\ last.op = "login_for_access_token"
    /\ WrongPassword(last, users)
    /\ last.token = Absent


\* C20: a logout request writes nothing on the server, so get_current_user
\* gives for every issued token, sent as cookie or as header, the result it
\* gave before the logout; and a request that presents an issued token not
\* past its expiry whose subject has a user document is resolved to that
\* document, whatever logouts came before.
C20_LogoutKeepsTokens ==
    [][ /\ (last = Quiet /\ last'.op = "logout")
           => /\ UNCHANGED <<users, shipments, logins, now, issued, nextId,
                             nextReset, procs>>
              /\ \A tok \in issued :
                    /\ get_current_user(tok, Absent, users', now')
                          = get_current_user(tok, Absent, users, now)
                    /\ get_current_user(Absent, tok, users', now')
                          = get_current_user(Absent, tok, users, now)
        /\ (last = Quiet /\ last'.op = "get_dashboard" /\ Presented(last') \in issued
            /\ Presented(last').exp >= now
            /\ \E u \in Docs(users) : u.email = Presented(last').sub)
           => /\ last'.ran
              /\ last'.principal.email = Presented(last').sub
      ]_vars

\* A logout has just been answered, some time after a login whose token is
\* not yet expired and whose subject still has a user document: replayed as
\* cookie or as header, the token resolves.
C20_Witness ==
    /\ last.op = "logout"
    /\ now > 0
    /\ \E tok \in issued :
          /\ tok.exp >= now /\ tok.exp < now + ACCESS_TOKEN_EXPIRE_MINUTES
          /\ get_current_user(tok, Absent, users, now).ok
          /\ get_current_user(Absent, tok, users, now).ok


\* The user document with the given id, in the store us.
ById(us, id) == FindOne(us, [id |-> id])

\* C21: after a signup with password p, the stored hash verifies p and no
\* other password a form can carry; after a reset that stores q over a hash
\* that verified p # q, the stored hash verifies q and no longer verifies p
\* nor any other password; a login succeeds exactly when the submitted
\* password verifies against the hash stored at that time.
C21_LatestPasswordOnly ==
    [][ /\ (last = Quiet /\ last'.op = "post_signup"
            /\ last'.detail = "Account created successfully! Please log in.")
           => LET user == FindOne(users', [email |-> last'.args[1]])
              IN  \A p \in FormPasswords :
                     verify_password(p, user.password_hash) <=> p = last'.args[2]
        /\ (last = Quiet /\ last'.op = "reset_password_post"
            /\ last'.detail = "Your password has been reset successfully. Please log in.")
           => LET old == FindByResetToken(users, last'.args[1], now)
                  user == ById(users', old.id)
              IN  \A p \in FormPasswords :
                     verify_password(p, user.password_hash) <=> p = last'.args[2]
        /\ (last = Quiet /\ last'.op \in LoginOps)
           => LET user == FindOne(users, [email |-> last'.args[1]])
              IN  (last'.token # Absent)
                     <=> (user # NoUser
                          /\ verify_password(last'.args[2], user.password_hash))
      ]_vars


\* C22: after a request to assign_admin or update_user made by a principal
\* whose stored role is "admin", the principal's own user document still
\* has role "admin".
C22_OwnRoleKept ==
    [][ (last = Quiet /\ last'.op \in {"assign_admin", "update_user"}
         /\ last'.principal # NoUser /\ last'.principal.role = "admin")
        => LET own == ById(users', last'.principal.id)
           IN  own # NoUser /\ own.role = "admin"
      ]_vars


\* C23: a delete_user request whose target is the principal's own email
\* leaves the store as it was, and after every delete_user request the user
\* document of the principal that made it is still stored, unchanged.
C23_OwnAccountKept ==
    [][ (last = Quiet /\ last'.op = "delete_user" /\ last'.principal # NoUser)
        => /\ last'.principal \in Docs(users')
           /\ last'.args[1] = last'.principal.email
              => /\ users' = users
                 /\ last'.detail # "User {email} deleted successfully."
      ]_vars

\* An administrator has asked to delete its own account and was told it
\* cannot; its document is still stored.
C23_Witness ==
    /\ last.op = "delete_user"
    /\ last.ran
    /\ last.args[1] = last.principal.email
    /\ last.detail = "You cannot delete your own account."
    /\ last.principal \in Docs(users)


\* Genuine, unexpired tokens with the subject of tok: what the same user can
\* present instead of tok.
SameSubject(tok, t) ==
    {other \in issued : other.sub = tok.sub /\ other.exp >= t}

\* C24: a request to an admin route that presents a genuine, unexpired token
\* of a stored user is let through exactly when the role stored on that
\* user's document is "admin", and is otherwise answered 403; any other
\* token with the same subject, whatever its role claim, would have had the
\* same outcome on the same request.
C24_StoredRoleDecides ==
    [][ (last = Quiet /\ last'.op \in AdminOps /\ Presented(last') \in issued
         /\ last'.principal # NoUser)
        => /\ last'.ran <=> StoredRole(Presented(last'), users) = "admin"
           /\ ~last'.ran => /\ last'.status = 403
                            /\ last'.detail = "Not enough permissions"
           /\ \A other \in SameSubject(Presented(last'), now) :
                 /\ verify_admin(ActiveGate(other, Absent)).ok = last'.ran
                 /\ verify_admin(ActiveGate(Absent, other)).ok = last'.ran
                 /\ ~last'.ran
                    => /\ verify_admin(ActiveGate(other, Absent)).status = last'.status
                       /\ verify_admin(ActiveGate(other, Absent)).detail = last'.detail
      ]_vars

\* A user demoted after logging in as administrator is refused with the old
\* token, whose role claim is still "admin", while it also holds a later
\* token whose role claim is "user".
C24_Witness ==
    /\ last.op \in AdminOps
    /\ Presented(last) \in issued
    /\ Presented(last).role = "admin"
    /\ last.principal # NoUser
    /\ last.principal.role = "user"
    /\ ~last.ran /\ last.status = 403
    /\ \E other \in SameSubject(Presented(last), now) : other.role = "user"


\* The email a step has just given to a user document that did not have it:
\* the email of a signup that created an account, or the new email of an
\* update_user that renamed one; the empty string for any other step.
EmailTaken(response) ==
    IF /\ response.op = "post_signup"
       /\ response.detail = "Account created successfully! Please log in."
    THEN response.args[1]
    ELSE IF /\ response.op = "update_user" /\ response.ran
            /\ response.detail = "User updated successfully."
            /\ response.args[1] # response.args[2]
    THEN response.args[2]
    ELSE ""

\* Genuine, unexpired tokens whose subject is email.
TokensOf(email, t) == {tok \in issued : tok.sub = email /\ tok.exp >= t}

\* C25: when a signup or a rename gives an email to a user document, every
\* unexpired token issued earlier with that email as subject, which no
\* document answered to before the step, resolves after it to that document
\* and passes the admin gate exactly when that document's role is "admin";
\* and a request that presents an unexpired issued token is resolved to the
\* document that holds the token's subject as email when the request is
\* served.
C25_TokenFollowsEmail ==
    [][ /\ (last = Quiet /\ EmailTaken(last') # "")
           => \A tok \in TokensOf(EmailTaken(last'), now) :
                 LET before == get_current_user(tok, Absent, users, now)
                     after == get_current_user(tok, Absent, users', now')
                     holder == FindOne(users', [email |-> tok.sub])
                 IN  /\ ~before.ok
                     /\ after.ok
                     /\ after.user = holder
                     /\ get_current_user(Absent, tok, users', now') = after
                     /\ verify_admin(get_current_active_user(after)).ok
                           <=> holder.role = "admin"
        /\ (last = Quiet /\ last'.op \in GatedOps /\ Presented(last') \in issued
            /\ Presented(last').exp >= now
            /\ FindOne(users, [email |-> Presented(last').sub]) # NoUser)
           => last'.principal = FindOne(users, [email |-> Presented(last').sub])
      ]_vars

\* A signup has just created an account under the email of a deleted one
\* while an unexpired token issued to the deleted account is outstanding:
\* the token resolves to the new document.
C25_Witness ==
    /\ last.op = "post_signup"
    /\ EmailTaken(last) = "b@x.com"
    /\ \E tok \in TokensOf("b@x.com", now) :
          /\ get_current_user(tok, Absent, users, now).ok
          /\ get_current_user(tok, Absent, users, now).user.id = 3

\* An administrator's document has just been renamed to the email of a
\* deleted user whose token, issued with role claim "user", is outstanding:
\* the token now passes the admin gate.
C25_RenamedReached ==
    /\ last.op = "update_user"
    /\ EmailTaken(last) = "b@x.com"
    /\ \E tok \in TokensOf("b@x.com", now) :
          /\ tok.role = "user"
          /\ verify_admin(get_current_active_user(
                get_current_user(tok, Absent, users, now))).ok


\* C26: while a process_forgot_password that stored a reset token has
\* returned and nothing else has been asked since, the update_one of a
\* reset_password_post that was submitted another token leaves every stored,
\* unexpired reset token other than the submitted one in place and still
\* found by the reset lookup.
C26_NewerTokenSurvives ==
    [][ \A p \in Procs, q \in Procs :
          (/\ p # q
           /\ procs[p].op = "reset_password_post" /\ procs[p].pc = "update"
           /\ procs'[p].pc = "done"
           /\ procs[q].op = "process_forgot_password" /\ procs[q].pc = "done"
           /\ procs[q].wrote)
          => \A u \in Docs(users) :
                (/\ u.reset_token # None
                 /\ u.reset_token # procs[p].args[1]
                 /\ u.reset_token_expires_at > now)
                => /\ ById(users', u.id).reset_token = u.reset_token
                   /\ ById(users', u.id).reset_token_expires_at
                         = u.reset_token_expires_at
                   /\ FindByResetToken(users', u.reset_token, now') # NoUser
      ]_vars

====
